---------------------------- MODULE Spec2Model ----------------------------
(***************************************************************************)
(* Model of the magic-circle visual: the two per-frame blend drivers       *)
(* (MagicParticles.useFrame, MagicOrnaments.useFrame), the gesture polling *)
(* loop (VisionController + analyzeFrame) and the particle generator       *)
(* (selector partition + getMoonPoint).                                    *)
(*                                                                         *)
(* Numbers.  The program computes in IEEE doubles; the model computes in   *)
(* fixed point.  Blend scalars and lerp weights are integers in units of   *)
(* 1/One (One = 1000 stands for 1.0), elapsed times are in milliseconds,  *)
(* rotations in units of 1e-4 rad, plane coordinates in units of 0.01,     *)
(* the selector p in units of 0.01.  Products are rounded to the nearest   *)
(* unit.                                                                   *)
(***************************************************************************)
EXTENDS Integers, Sequences, FiniteSets, TLC

VARIABLES
    \* ---- blend drivers (MagicParticles.tsx, geminiService.ts/MagicOrnaments)
    state,        \* prop `state`: "CHAOS" | "FORMED"
    mounted,      \* shaderRef.current / mesh.current / meshRef.current are set
    framePc,      \* "idle" | "particles" | "ornaments": subscriber to run next
    delta,        \* elapsed ms handed to the useFrame callbacks of this frame
    frames,       \* frames begun so far
    currentMixP,  \* MagicParticles currentMix.current
    rotationP,    \* mesh.current.rotation.z (Points)
    currentMixO,  \* MagicOrnaments currentMix.current
    rotationO,    \* meshRef.current.rotation.z (InstancedMesh)
    \* ---- gesture polling (VisionController.tsx, geminiService.ts/analyzeFrame)
    apiKey,       \* TRUE iff process.env.API_KEY is a non-empty string
    videoReady,   \* videoRef.current.readyState === 4
    isProcessing, \* latest value of the React state isProcessing
    capturedIsProcessing, \* isProcessing as captured by the captureAndAnalyze
                  \* closure that the live interval calls
    polls,        \* interval ticks so far
    pollLimit,    \* interval ticks the behaviour may take (fixed at the start)
    nextId,       \* requests started so far (ids 1..nextId, in start order)
    inFlight,     \* ids of captureAndAnalyze runs awaiting analyzeFrame
    lastSettled,  \* [resp, result] of the analyzeFrame call that settled last
    lastDelivered,\* [id, resp, signal] of the last onUpdate(result) call
    deliveredCount, \* number of onUpdate calls
    allThrew,     \* every gesture-source call so far threw
    allNeutral,   \* every signal passed to onUpdate so far was the fallback
    crashed,      \* a captureAndAnalyze promise rejected (exception escaped)
    lastRunEnd,   \* how the captureAndAnalyze run that ended last left its try
    \* ---- particle generator (MagicParticles.tsx useMemo)
    genPc,        \* "next" | "moonLoop" | "moonExit" | "store" | "done"
    i,            \* particle index of the generator loop
    p,            \* selector value of particle i, in hundredths
    shapeType,    \* local shapeType of the loop body
    primitive,    \* which of the nine branches was taken (0 = none yet)
    attempts,     \* getMoonPoint: attempts
    valid,        \* getMoonPoint: valid
    x,            \* getMoonPoint: x (units of 0.01)
    y,            \* getMoonPoint: y (units of 0.01)
    moonPoint,    \* value returned by the last getMoonPoint call
    typesArray    \* typesArray[0..i-1]

blendVars  == <<state, mounted, framePc, delta, frames, currentMixP, rotationP,
                currentMixO, rotationO>>
visionVars == <<apiKey, videoReady, isProcessing, capturedIsProcessing, polls,
                pollLimit,
                nextId, inFlight, lastSettled, lastDelivered, deliveredCount,
                allThrew, allNeutral, crashed, lastRunEnd>>
genVars    == <<genPc, i, p, shapeType, primitive, attempts, valid, x, y,
                moonPoint, typesArray>>
vars       == <<blendVars, visionVars, genVars>>

-----------------------------------------------------------------------------
(* Bounds of the model *)

MaxFrames     == 5    \* frames per behaviour, free-running driver
MaxRampFrames == 40   \* frames per behaviour, constant-target ramp
MaxPolls      == 10   \* interval ticks per behaviour
MaxFairPolls  == 4    \* interval ticks per behaviour, fair polling loop
MaxInFlight   == 2    \* overlapping requests the model follows
NumParticles  == 2    \* particles generated (the program's count is 32000)

-----------------------------------------------------------------------------
(* Blend drivers *)

One == 1000                   \* fixed-point 1.0 (targetVal of FORMED)
ParticleRate == 15            \* delta * 1.5, in tenths
OrnamentRate == 12            \* delta * 1.2, in tenths
ParticleSpinThreshold == 500  \* currentMix.current > 0.5
OrnamentSpinThreshold == 900  \* currentMix.current > 0.9
SpinRate == 5                 \* delta * 0.05, in hundredths

\* Elapsed times (ms) a frame may report: a repeated timestamp, 50 and 60 fps
\* frames, slow frames, and frames after the tab was backgrounded.
Deltas == {0, 20, 100, 500, 1000}

MagicStates == {"CHAOS", "FORMED"}

\* n / d rounded to the nearest integer (d > 0).
RoundDiv(n, d) == (2 * n + d) \div (2 * d)

\* THREE.MathUtils.lerp(x, y, t) = (1 - t) * x + t * y, t not clamped.
lerp(a, b, t) == RoundDiv((One - t) * a + t * b, One)

\* state === MagicState.FORMED ? 1.0 : 0.0
targetVal(s) == IF s = "FORMED" THEN One ELSE 0

\* delta * rate as a lerp weight in units of 1/One (delta in ms, rate in tenths)
Weight(d, rate) == (d * rate) \div 10

\* delta * 0.05 in units of 1e-4 rad
SpinStep(d) == (d * SpinRate) \div 10

ParticlesMix(mix, s, d) == lerp(mix, targetVal(s), Weight(d, ParticleRate))

ParticlesSpins(mix) == mix > ParticleSpinThreshold

OrnamentsMix(mix, s, d) == lerp(mix, targetVal(s), Weight(d, OrnamentRate))

OrnamentsSpins(mix) == mix > OrnamentSpinThreshold

\* React mounts the <points>/<shaderMaterial>/<instancedMesh> elements.
Mount ==
    /\ ~mounted
    /\ mounted' = TRUE
    /\ UNCHANGED <<state, framePc, delta, frames, currentMixP, rotationP,
                   currentMixO, rotationO>>
    /\ UNCHANGED <<visionVars, genVars>>

\* The parent re-renders with a new `state` prop (between frames).
SetState(s) ==
    /\ framePc = "idle"
    /\ s # state
    /\ state' = s
    /\ UNCHANGED <<mounted, framePc, delta, frames, currentMixP, rotationP,
                   currentMixO, rotationO>>
    /\ UNCHANGED <<visionVars, genVars>>

\* The render loop starts a frame: every useFrame subscriber gets this delta.
BeginFrame(d, limit) ==
    /\ framePc = "idle"
    /\ frames < limit
    /\ frames' = frames + 1
    /\ delta' = d
    /\ framePc' = "particles"
    /\ UNCHANGED <<state, mounted, currentMixP, rotationP, currentMixO, rotationO>>
    /\ UNCHANGED <<visionVars, genVars>>

\* MagicParticles useFrame callback.
MagicParticlesFrame ==
    /\ framePc = "particles"
    /\ framePc' = "ornaments"
    /\ IF mounted
       THEN LET mix == ParticlesMix(currentMixP, state, delta) IN
            /\ currentMixP' = mix
            /\ rotationP' = IF ParticlesSpins(mix)
                            THEN rotationP - SpinStep(delta)
                            ELSE rotationP
       ELSE UNCHANGED <<currentMixP, rotationP>>
    /\ UNCHANGED <<state, mounted, delta, frames, currentMixO, rotationO>>
    /\ UNCHANGED <<visionVars, genVars>>

\* MagicOrnaments useFrame callback.
MagicOrnamentsFrame ==
    /\ framePc = "ornaments"
    /\ framePc' = "idle"
    /\ IF mounted
       THEN LET mix == OrnamentsMix(currentMixO, state, delta) IN
            /\ currentMixO' = mix
            /\ rotationO' = IF OrnamentsSpins(mix)
                            THEN rotationO - SpinStep(delta)
                            ELSE rotationO
       ELSE UNCHANGED <<currentMixO, rotationO>>
    /\ UNCHANGED <<state, mounted, delta, frames, currentMixP, rotationP>>
    /\ UNCHANGED <<visionVars, genVars>>

InitBlend ==
    /\ state = "CHAOS"
    /\ mounted = FALSE
    /\ framePc = "idle"
    /\ delta = 0
    /\ frames = 0
    /\ currentMixP = 0
    /\ rotationP = 0
    /\ currentMixO = 0
    /\ rotationO = 0

-----------------------------------------------------------------------------
(* Gesture source: analyzeFrame *)

\* What ai.models.generateContent does for one call: it throws (network
\* failure, quota, ...) or returns a response whose .text is one of these.
TextEmpty    == ""
TextGarbage  == "Sorry, I cannot see a hand."
TextOpen     == "{\"state\":\"OPEN\",\"x\":0.2,\"y\":0.8}"
TextClosed   == "{\"state\":\"CLOSED\",\"x\":0.7,\"y\":0.3}"
TextFist     == "{\"state\":\"FIST\",\"x\":2.5,\"y\":0}"
TextNull     == "null"

Texts == {TextEmpty, TextGarbage, TextOpen, TextClosed, TextFist, TextNull}

Responses == {[threw |-> TRUE, text |-> TextEmpty]}
             \cup {[threw |-> FALSE, text |-> t] : t \in Texts}

\* No call of the gesture source (initial value, and the no-API-key path).
NoResponse == [threw |-> FALSE, text |-> "(no call)"]

\* A JSON value: an object with the fields read downstream (x, y in tenths),
\* or null.
JsonObject(s, px, py) == [json |-> "object", state |-> s, x |-> px, y |-> py]
JsonNull == [json |-> "null", state |-> "undefined", x |-> 0, y |-> 0]

\* { state: 'UNKNOWN', x: 0.5, y: 0.5 }
Fallback == JsonObject("UNKNOWN", 5, 5)

\* JSON.parse(text): the parsed value, or a SyntaxError.
JSONParse(t) ==
    CASE t = TextOpen   -> [ok |-> TRUE,  value |-> JsonObject("OPEN", 2, 8)]
      [] t = TextClosed -> [ok |-> TRUE,  value |-> JsonObject("CLOSED", 7, 3)]
      [] t = TextFist   -> [ok |-> TRUE,  value |-> JsonObject("FIST", 25, 0)]
      [] t = TextNull   -> [ok |-> TRUE,  value |-> JsonNull]
      [] OTHER          -> [ok |-> FALSE, value |-> JsonNull]

Fulfilled(v) == [settled |-> "fulfilled", value |-> v]
Rejected     == [settled |-> "rejected",  value |-> JsonNull]

\* The body of analyzeFrame's try block: "return" with a value, "throw", or
\* "fallthrough" (response.text is falsy).
AnalyzeTry(resp) ==
    IF resp.threw THEN [completion |-> "throw", value |-> JsonNull]
    ELSE IF resp.text # TextEmpty
         THEN LET parsed == JSONParse(resp.text) IN
              IF parsed.ok
              THEN [completion |-> "return", value |-> parsed.value]
              ELSE [completion |-> "throw", value |-> JsonNull]
         ELSE [completion |-> "fallthrough", value |-> JsonNull]

\* try/catch variant that lets the exception out of analyzeFrame.
analyzeFrameUncaught(key, resp) ==
    IF ~key THEN Fulfilled(Fallback)
    ELSE LET body == AnalyzeTry(resp) IN
         CASE body.completion = "return" -> Fulfilled(body.value)
           [] body.completion = "throw"  -> Rejected
           [] OTHER                      -> Fulfilled(Fallback)

\* analyzeFrame: the promise it returns, given the key and what the vision
\* call does.
analyzeFrame(key, resp) ==
    IF ~key THEN Fulfilled(Fallback)
    ELSE LET body == AnalyzeTry(resp) IN
         CASE body.completion = "return" -> Fulfilled(body.value)
           [] body.completion = "throw"  -> Fulfilled(Fallback)   \* catch, log
           [] OTHER                      -> Fulfilled(Fallback)

-----------------------------------------------------------------------------
(* VisionController *)

\* The try block after the frame is captured: `await analyzeFrame(...)`
\* throws if the promise rejected, then onUpdate(result) may throw.
CaptureTry(result, onUpdateThrows) ==
    IF result.settled = "rejected" \/ onUpdateThrows THEN "throw" ELSE "normal"

\* How the promise of a captureAndAnalyze run settles: the catch clause logs
\* and swallows whatever the try block threw, the finally clause cannot throw.
CaptureCompletion(result, onUpdateThrows) ==
    IF CaptureTry(result, onUpdateThrows) = "throw"
    THEN "fulfilled"     \* catch (e) { console.error(...) }
    ELSE "fulfilled"

\* The value of isProcessing a run leaves behind, given how its try block
\* ended, if the reset were the last statement of the try block.
FlagAfterRunInTry(try) == try = "throw"

\* The value of isProcessing a run leaves behind, given how its try block
\* ended: finally { setIsProcessing(false) } runs on every path.
FlagAfterRun(try) == FALSE

\* Which path through the try block a run that awaited analyzeFrame took.
RunEnd(result, onUpdateThrows) ==
    IF result.settled = "rejected" THEN "analysisRejected"
    ELSE IF onUpdateThrows THEN "onUpdateThrew"
    ELSE "delivered"

\* getUserMedia resolves and the <video> reaches readyState 4.  (A denied
\* camera leaves videoReady FALSE for ever.)
CameraReady ==
    /\ ~videoReady
    /\ videoReady' = TRUE
    /\ UNCHANGED <<apiKey, isProcessing, capturedIsProcessing, polls, nextId,
                   inFlight, lastSettled, lastDelivered, deliveredCount,
                   allThrew, allNeutral, crashed, lastRunEnd>>
    /\ UNCHANGED <<pollLimit, blendVars, genVars>>

\* React re-renders after a state change and commits the polling effect:
\* the old interval is cleared and the new one calls the callback that
\* captured the current isProcessing.
Render ==
    /\ capturedIsProcessing # isProcessing
    /\ capturedIsProcessing' = isProcessing
    /\ UNCHANGED <<apiKey, videoReady, isProcessing, polls, nextId, inFlight,
                   lastSettled, lastDelivered, deliveredCount, allThrew,
                   allNeutral, crashed, lastRunEnd>>
    /\ UNCHANGED <<pollLimit, blendVars, genVars>>

\* onUpdate(result) is called for request id, whose analysis saw resp.
Deliver(id, resp, signal) ==
    /\ lastDelivered' = [id |-> id, resp |-> resp, signal |-> signal]
    /\ deliveredCount' = deliveredCount + 1
    /\ allNeutral' = (allNeutral /\ signal = Fallback)

\* The interval fires and the callback returns at one of its guards.
TimerTickSkip ==
    /\ polls < pollLimit
    /\ capturedIsProcessing \/ ~videoReady
    /\ polls' = polls + 1
    /\ UNCHANGED <<apiKey, videoReady, isProcessing, capturedIsProcessing,
                   nextId, inFlight, lastSettled, lastDelivered,
                   deliveredCount, allThrew, allNeutral, crashed, lastRunEnd>>
    /\ UNCHANGED <<pollLimit, blendVars, genVars>>

\* The interval fires, the guards pass, and the run ends without awaiting
\* the vision call: no 2D context, or drawImage/toDataURL throws.
TimerTickNoRequest(captureThrows) ==
    /\ polls < pollLimit
    /\ ~capturedIsProcessing /\ videoReady
    /\ polls' = polls + 1
    /\ LET try == IF captureThrows THEN "throw" ELSE "normal" IN
       /\ isProcessing' = FlagAfterRun(try)  \* setIsProcessing(true); ...
       /\ lastRunEnd' = IF captureThrows THEN "captureThrew" ELSE "noContext"
    /\ UNCHANGED <<apiKey, videoReady, capturedIsProcessing, nextId, inFlight,
                   lastSettled, lastDelivered, deliveredCount, allThrew,
                   allNeutral, crashed>>
    /\ UNCHANGED <<pollLimit, blendVars, genVars>>

\* The interval fires, the guards pass, and analyzeFrame returns at the
\* missing-key check: the await resumes in the same turn of the event loop.
TimerTickNoKey(onUpdateThrows) ==
    /\ polls < pollLimit
    /\ ~capturedIsProcessing /\ videoReady
    /\ ~apiKey
    /\ polls' = polls + 1
    /\ nextId' = nextId + 1
    /\ LET result == analyzeFrame(apiKey, NoResponse) IN
       /\ lastSettled' = [resp |-> NoResponse, result |-> result]
       /\ IF result.settled = "fulfilled"
          THEN Deliver(nextId + 1, NoResponse, result.value)
          ELSE UNCHANGED <<lastDelivered, deliveredCount, allNeutral>>
       /\ crashed' = (crashed \/ CaptureCompletion(result, onUpdateThrows) = "rejected")
       /\ isProcessing' = FlagAfterRun(CaptureTry(result, onUpdateThrows))
       /\ lastRunEnd' = RunEnd(result, onUpdateThrows)
    /\ UNCHANGED <<apiKey, videoReady, capturedIsProcessing, inFlight, allThrew>>
    /\ UNCHANGED <<pollLimit, blendVars, genVars>>

\* The interval fires, the guards pass, the frame is captured and the vision
\* call is sent: the run now awaits analyzeFrame.
TimerTickStart ==
    /\ polls < pollLimit
    /\ ~capturedIsProcessing /\ videoReady
    /\ apiKey
    /\ Cardinality(inFlight) < MaxInFlight
    /\ polls' = polls + 1
    /\ nextId' = nextId + 1
    /\ inFlight' = inFlight \cup {nextId + 1}
    /\ isProcessing' = TRUE
    /\ UNCHANGED <<apiKey, videoReady, capturedIsProcessing, lastSettled,
                   lastDelivered, deliveredCount, allThrew, allNeutral, crashed, lastRunEnd>>
    /\ UNCHANGED <<pollLimit, blendVars, genVars>>

\* The vision call of request id settles; analyzeFrame settles; the run
\* resumes: onUpdate(result), catch, finally.
Settle(id, resp, onUpdateThrows) ==
    /\ id \in inFlight
    /\ inFlight' = inFlight \ {id}
    /\ allThrew' = (allThrew /\ resp.threw)
    /\ LET result == analyzeFrame(apiKey, resp) IN
       /\ lastSettled' = [resp |-> resp, result |-> result]
       /\ IF result.settled = "fulfilled"
          THEN Deliver(id, resp, result.value)
          ELSE UNCHANGED <<lastDelivered, deliveredCount, allNeutral>>
       /\ crashed' = (crashed \/ CaptureCompletion(result, onUpdateThrows) = "rejected")
       /\ isProcessing' = FlagAfterRun(CaptureTry(result, onUpdateThrows))
       /\ lastRunEnd' = RunEnd(result, onUpdateThrows)
    /\ UNCHANGED <<apiKey, videoReady, capturedIsProcessing, polls, nextId>>
    /\ UNCHANGED <<pollLimit, blendVars, genVars>>

InitVisionWith(limit) ==
    /\ pollLimit = limit
    /\ apiKey \in BOOLEAN
    /\ videoReady = FALSE
    /\ isProcessing = FALSE
    /\ capturedIsProcessing = FALSE
    /\ polls = 0
    /\ nextId = 0
    /\ inFlight = {}
    /\ lastSettled = [resp |-> NoResponse, result |-> Fulfilled(Fallback)]
    /\ lastDelivered = [id |-> 0, resp |-> NoResponse, signal |-> Fallback]
    /\ deliveredCount = 0
    /\ allThrew = TRUE
    /\ allNeutral = TRUE
    /\ crashed = FALSE
    /\ lastRunEnd = "none"

InitVision == InitVisionWith(MaxPolls)

-----------------------------------------------------------------------------
(* Particle generator: selector partition and getMoonPoint *)

cxBody == -485       \* const cxBody = -4.85
rBody  == 165        \* const rBody = 1.65
cxCut  == -360       \* const cxCut = -3.6
rCut   == 135        \* const rCut = 1.35
MaxAttempts == 20    \* attempts < 20
FallbackX == -650    \* return { x: -6.5, y: 0, z: 0 }

\* Math.random() in tenths, a sample of [0, 1) with both ends of the box
Draws == {0, 2, 4, 5, 7, 9}

\* Math.random() for the selector, in hundredths: both ends of [0, 1), each
\* boundary of the partition with the value just below it, and 0.45, 0.50
Selectors == {0, 7, 8, 19, 20, 29, 30, 39, 40, 45, 49, 50, 59, 60, 71, 72, 81,
              82, 91, 92, 99}

\* (Math.random() - 0.5) * (rBody * 2), in units of 0.01
BoxOffset(u) == ((u - 5) * (rBody * 2)) \div 10

\* dx^2 + dy^2.  The code compares Math.sqrt of this with a radius; both
\* sides are non-negative, so the model compares the squares.
DistSq(dx, dy) == dx * dx + dy * dy

\* distBody <= rBody && distCut >= rCut
MoonAccept(px, py) ==
    /\ DistSq(px - cxBody, py) <= rBody * rBody
    /\ DistSq(px - cxCut, py) >= rCut * rCut

\* while (!valid && attempts < 20), without the attempt cap
MoonLoopCondUncapped(v, a) == ~v

\* while (!valid && attempts < 20)
MoonLoopCond(v, a) == ~v /\ a < MaxAttempts

\* the point getMoonPoint returns when the rejection loop gave nothing,
\* moved to the inner edge of the body disk
MoonFallbackInner == [x |-> -320, y |-> 0]

\* if (!valid) return { x: -6.5, y: 0, z: 0 }
\* (the leftmost point of the body circle: 6.5 - 4.85 = 1.65 = rBody, so it is
\* on the boundary in decimal arithmetic; in doubles -6.5 - cxBody is
\* 1.6500000000000004, one step above the double 1.65)
MoonFallback == [x |-> FallbackX, y |-> 0]

\* the if / else-if chain over p with the crescent branch starting at 0.50
PrimitiveNarrowMoon(sel) ==
    IF sel < 8 THEN 1
    ELSE IF sel < 20 THEN 2
    ELSE IF sel < 30 THEN 3
    ELSE IF sel < 50 THEN 4
    ELSE IF sel < 60 THEN 5
    ELSE IF sel < 72 THEN 6
    ELSE IF sel < 82 THEN 7
    ELSE IF sel < 92 THEN 8
    ELSE 9

\* the if / else-if chain over p: which of the nine primitives is drawn
Primitive(sel) ==
    IF sel < 8 THEN 1
    ELSE IF sel < 20 THEN 2
    ELSE IF sel < 30 THEN 3
    ELSE IF sel < 40 THEN 4
    ELSE IF sel < 60 THEN 5
    ELSE IF sel < 72 THEN 6
    ELSE IF sel < 82 THEN 7
    ELSE IF sel < 92 THEN 8
    ELSE 9

\* let shapeType = 0; ... shapeType = 1 in the crescent branch only
ShapeTypeOf(prim) == IF prim = 5 THEN 1 ELSE 0

\* Loop body up to the branch: draw p, take the branch.  The crescent
\* branch enters getMoonPoint (valid = false, x = y = 0, attempts = 0).
\* The positions of the other eight primitives are not modelled.
DrawSelector(sel) ==
    /\ genPc = "next"
    /\ i < NumParticles
    /\ p' = sel
    /\ primitive' = Primitive(sel)
    /\ shapeType' = ShapeTypeOf(Primitive(sel))
    /\ IF Primitive(sel) = 5
       THEN /\ genPc' = "moonLoop"
            /\ attempts' = 0
            /\ valid' = FALSE
            /\ x' = 0
            /\ y' = 0
       ELSE /\ genPc' = "store"
            /\ UNCHANGED <<attempts, valid, x, y>>
    /\ UNCHANGED <<i, moonPoint, typesArray>>
    /\ UNCHANGED <<blendVars, visionVars>>

\* One iteration of getMoonPoint's rejection loop.
MoonIterate(u, v) ==
    /\ genPc = "moonLoop"
    /\ MoonLoopCond(valid, attempts)
    /\ attempts' = attempts + 1
    /\ x' = cxBody + BoxOffset(u)
    /\ y' = BoxOffset(v)
    /\ valid' = MoonAccept(cxBody + BoxOffset(u), BoxOffset(v))
    /\ UNCHANGED <<genPc, i, p, shapeType, primitive, moonPoint, typesArray>>
    /\ UNCHANGED <<blendVars, visionVars>>

\* getMoonPoint leaves the loop and returns.
MoonReturn ==
    /\ genPc = "moonLoop"
    /\ ~MoonLoopCond(valid, attempts)
    /\ moonPoint' = IF ~valid THEN MoonFallback ELSE [x |-> x, y |-> y]
    /\ genPc' = "store"
    /\ UNCHANGED <<i, p, shapeType, primitive, attempts, valid, x, y, typesArray>>
    /\ UNCHANGED <<blendVars, visionVars>>

\* typesArray[i] = shapeType; i++
StoreParticle ==
    /\ genPc = "store"
    /\ typesArray' = Append(typesArray, shapeType)
    /\ i' = i + 1
    /\ genPc' = "next"
    /\ UNCHANGED <<p, shapeType, primitive, attempts, valid, x, y, moonPoint>>
    /\ UNCHANGED <<blendVars, visionVars>>

InitGen ==
    /\ genPc = "next"
    /\ i = 0
    /\ p = 0
    /\ shapeType = 0
    /\ primitive = 0
    /\ attempts = 0
    /\ valid = FALSE
    /\ x = 0
    /\ y = 0
    /\ moonPoint = [x |-> 0, y |-> 0]
    /\ typesArray = <<>>

-----------------------------------------------------------------------------
(* Specifications *)

Init == InitBlend /\ InitVision /\ InitGen

\* The same, for the specifications in which the polling loop does not run.
InitKeyed == Init /\ apiKey

NextBlend ==
    \/ Mount
    \/ \E s \in MagicStates : SetState(s)
    \/ \E d \in Deltas : BeginFrame(d, MaxFrames)
    \/ MagicParticlesFrame
    \/ MagicOrnamentsFrame

NextVision ==
    \/ CameraReady
    \/ Render
    \/ TimerTickSkip
    \/ \E t \in BOOLEAN : TimerTickNoRequest(t)
    \/ \E t \in BOOLEAN : TimerTickNoKey(t)
    \/ TimerTickStart
    \/ \E id \in inFlight, resp \in Responses, t \in BOOLEAN : Settle(id, resp, t)

NextGen ==
    \/ \E sel \in Selectors : DrawSelector(sel)
    \/ \E u \in Draws, v \in Draws : MoonIterate(u, v)
    \/ MoonReturn
    \/ StoreParticle

Next == NextBlend \/ NextVision \/ NextGen

\* The whole program.
Spec == Init /\ [][Next]_vars

\* The two blend drivers under any sequence of targets and elapsed times.
SpecBlend == InitKeyed /\ [][NextBlend]_vars

\* The blend drivers with the target held at FORMED and one elapsed time,
\* chosen at the start, on every frame.
InitRamp ==
    /\ InitVision /\ InitGen /\ apiKey
    /\ state = "FORMED"
    /\ mounted = TRUE
    /\ framePc = "idle"
    /\ delta \in Deltas \ {0}     \* a running clock: time passes between ticks
    /\ frames = 0
    /\ currentMixP = 0
    /\ rotationP = 0
    /\ currentMixO = 0
    /\ rotationO = 0

RampFrame == BeginFrame(delta, MaxRampFrames)

NextRamp == RampFrame \/ MagicParticlesFrame \/ MagicOrnamentsFrame

SpecRamp == InitRamp /\ [][NextRamp]_vars

\* The gesture polling loop.
SpecVision == Init /\ [][NextVision]_vars

\* Some request in flight settles.
SettleSome ==
    \E id \in inFlight, resp \in Responses, t \in BOOLEAN : Settle(id, resp, t)

\* The gesture polling loop, where every vision call in flight settles in the
\* end and React runs every re-render it has scheduled.
InitFair == InitBlend /\ InitVisionWith(MaxFairPolls) /\ InitGen

SpecVisionFair ==
    InitFair /\ [][NextVision]_vars /\ WF_vars(SettleSome) /\ WF_vars(Render)

\* The particle generator.
SpecGen == InitKeyed /\ [][NextGen]_vars

-----------------------------------------------------------------------------
(* Properties *)

\* C1: in both blend drivers the blend scalar currentMix, started at 0, is
\* within [0, 1] in every reachable state, for any sequence of binary targets
\* and any non-negative elapsed times.
MixWithinUnitInterval ==
    /\ 0 <= currentMixP /\ currentMixP <= 1000
    /\ 0 <= currentMixO /\ currentMixO <= 1000

\* C2: at most one analyzeFrame request is in flight at any time.
AtMostOneInFlight == Cardinality(inFlight) <= 1

\* The responses C3 names: the vision call throws, the text is empty, the
\* text does not parse; and the calls that never reach the gesture source.
FailedResponse(resp) ==
    \/ resp = NoResponse
    \/ resp.threw
    \/ resp.text \in {TextEmpty, TextGarbage}

\* C3: analyzeFrame never rejects; when the key is missing, the vision call
\* throws, the text is empty or does not parse, it resolves to exactly
\* {UNKNOWN, 0.5, 0.5}; if every call of the gesture source threw, every
\* signal passed to onUpdate was exactly that value; no exception escapes a
\* captureAndAnalyze run.
NeutralOnFailure ==
    /\ lastSettled.result.settled = "fulfilled"
    /\ FailedResponse(lastSettled.resp) =>
           lastSettled.result.value = JsonObject("UNKNOWN", 5, 5)
    /\ (deliveredCount > 0 /\ FailedResponse(lastDelivered.resp)) =>
           lastDelivered.signal = JsonObject("UNKNOWN", 5, 5)
    /\ allThrew => allNeutral
    /\ ~crashed

\* C3 witness: every poll cycle of the run started a request, every vision
\* call threw, and every cycle delivered the neutral signal.
TenThrowingCyclesDelivered ==
    /\ apiKey
    /\ polls = MaxPolls
    /\ deliveredCount = MaxPolls
    /\ allThrew
    /\ lastDelivered.resp.threw
    /\ lastDelivered.signal = JsonObject("UNKNOWN", 5, 5)
    /\ ~crashed

\* C4: every value analyzeFrame returns, and every value passed to onUpdate,
\* is an object whose state is OPEN, CLOSED or UNKNOWN; a response whose
\* parsed content does not have that shape yields {UNKNOWN, 0.5, 0.5}.
SignalsWellShaped ==
    /\ lastSettled.result.value.json = "object"
    /\ lastSettled.result.value.state \in {"OPEN", "CLOSED", "UNKNOWN"}
    /\ lastDelivered.signal.json = "object"
    /\ lastDelivered.signal.state \in {"OPEN", "CLOSED", "UNKNOWN"}
    /\ lastSettled.resp.text \in {TextFist, TextNull} =>
           lastSettled.result.value = JsonObject("UNKNOWN", 5, 5)

\* A getMoonPoint call has returned and its value is about to be stored.
MoonReturned == genPc = "store" /\ primitive = 5

\* C5: getMoonPoint's rejection loop runs at most 20 iterations, whatever
\* the draws, and then returns the accepted candidate or the fallback point
\* (-6.5, 0).
MoonLoopWithinCap ==
    /\ attempts <= 20
    /\ MoonReturned =>
           \/ valid /\ moonPoint = [x |-> x, y |-> y]
           \/ ~valid /\ attempts = 20 /\ moonPoint = [x |-> -650, y |-> 0]

\* C5 witness: twenty candidates were rejected and the fallback returned.
MoonCapReached ==
    MoonReturned /\ attempts = 20 /\ ~valid /\ moonPoint = [x |-> -650, y |-> 0]

\* The crescent of C6: inside the disk of centre (-4.85, 0) and radius 1.65,
\* outside the disk of centre (-3.6, 0) and radius 1.35 (units of 0.01).
InCrescent(pt) ==
    /\ (pt.x + 485) * (pt.x + 485) + pt.y * pt.y <= 165 * 165
    /\ (pt.x + 360) * (pt.x + 360) + pt.y * pt.y >= 135 * 135

MoonTagIffUpperTenth ==
    genPc = "store" => (shapeType = 1 <=> (50 <= p /\ p < 60))

\* C7 amended: a particle gets the moon tag (1) exactly when
\* 0.40 <= p < 0.60, and the standard tag (0) for every other p; the tag
\* stored in typesArray is that tag.
MoonTagIffCrescentRange ==
    /\ genPc = "store" =>
           shapeType = (IF 40 <= p /\ p < 60 THEN 1 ELSE 0)
    /\ (genPc = "next" /\ i > 0) =>
           typesArray[i] = (IF 40 <= p /\ p < 60 THEN 1 ELSE 0)

\* C7 witness: a particle with p = 0.45 was stored with the moon tag.
MoonTagBelowHalf ==
    genPc = "next" /\ i > 0 /\ p = 45 /\ typesArray[i] = 1

\* C8: with the target held at 1 and the same elapsed time on every tick,
\* each tick leaves the blend scalar strictly greater than before and never
\* greater than 1.
RampIncreasesWithinOne ==
    [][ /\ framePc = "particles" =>
               (currentMixP' > currentMixP /\ currentMixP' <= 1000)
        /\ framePc = "ornaments" =>
               (currentMixO' > currentMixO /\ currentMixO' <= 1000) ]_vars

\* C9: results reach onUpdate in the order their requests were started: no
\* result is delivered after the result of a later-started request.
DeliveriesInStartOrder ==
    [][lastDelivered'.id >= lastDelivered.id]_vars

\* C10: a rendering tick changes rotation.z of the particle mesh, or of the
\* ornament mesh, only if that driver's blend scalar after the tick's update
\* exceeds 0.9.
RotationOnlyAboveNineTenths ==
    [][ /\ rotationP' # rotationP => currentMixP' > 900
        /\ rotationO' # rotationO => currentMixO' > 900 ]_vars

\* C11: every captureAndAnalyze run that set isProcessing to true sets it
\* back to false when it ends, on every path, once analyzeFrame settles: the
\* flag never stays true for ever, and neither does the value the interval's
\* callback has captured, so a later tick passes the guard again.
ProcessingFlagReset ==
    /\ [][lastRunEnd' # lastRunEnd => ~isProcessing']_vars
    /\ [][Cardinality(inFlight') < Cardinality(inFlight) => ~isProcessing']_vars
    /\ isProcessing ~> ~isProcessing
    /\ capturedIsProcessing ~> ~capturedIsProcessing

\* C11 witness: a run that awaited analyzeFrame ended with onUpdate throwing,
\* the flag is false again, the callback has been refreshed, and the interval
\* has ticks left to start the next request.
FlagResetAfterThrow ==
    /\ lastRunEnd = "onUpdateThrew"
    /\ nextId > 0
    /\ inFlight = {}
    /\ ~isProcessing
    /\ ~capturedIsProcessing
    /\ videoReady
    /\ polls < pollLimit

=============================================================================
